---- MODULE Spec2Model ----
(***************************************************************************)
(* A model of the engagement updater AMQP trigger                          *)
(* (src/engagement_updater/handler.py).  The handler receives one event,   *)
(* runs a GraphQL lookup, validates the response, walks a chain of guards  *)
(* and, on the proceed path, uploads a marker association and an edited    *)
(* engagement.  Every `await` of the handler is a suspension point, so     *)
(* each action below is the code between two consecutive awaits.           *)
(*                                                                         *)
(* JSON values are modelled structurally: a dict is a record, a list is a  *)
(* sequence, a scalar is a string.  A key that is absent or null is the    *)
(* string Missing for scalars and the empty option for lists and dicts     *)
(* (an option is a sequence of length 0 or 1).                             *)
(***************************************************************************)
EXTENDS Integers, Sequences, FiniteSets, TLC

(***************************************************************************)
(* Bounds of the model.                                                    *)
(***************************************************************************)
\* longest list of org units inside one related-units wrapper
MaxRelated == 2
\* largest number of associations in one lookup response
MaxAssociations == 2
\* largest number of copies of an element in a list that must hold one
MaxCopies == 2
\* number of handler invocations in one behaviour
MaxInvocations == 2

Units == {"U1", "U2", "U3"}
Employees == {"E1", "E2"}
Engagements == {"G1"}
Days == {"2022-12-31", "2023-01-15"}
Invocations == 1..MaxInvocations

\* an absent or null scalar
Missing == "<missing>"
\* the empty option, and the option holding x
None == <<>>
Some(x) == <<x>>
IsSome(o) == Len(o) = 1
Get(o) == o[1]

\* all sequences over S of length at most n
RECURSIVE SeqsUpTo(_, _)
SeqsUpTo(S, n) ==
    IF n = 0 THEN {<<>>}
    ELSE LET shorter == SeqsUpTo(S, n - 1)
         IN shorter \cup {Append(s, x) : s \in {t \in shorter : Len(t) = n - 1}, x \in S}

\* the sequence of n copies of x
Copies(x, n) == [k \in 1..n |-> x]


(***************************************************************************)
(* Lookup responses (the dict returned by gql_client.execute for           *)
(* RelatedOrgUnitQuery), as the inputs of the model.                       *)
(***************************************************************************)
\* the employee lists an association may carry in a response
EmployeeLists == {<<>>} \cup {<<e>> : e \in Employees}

RawAssociation(el) == [employee |-> [k \in 1..Len(el) |-> [uuid |-> el[k]]]]

\* the related-unit id lists of a response
RelatedSeqs == SeqsUpTo(Units, MaxRelated)

\* The associations of a response are given as a list of placements
\* <<unit id, employee list>>; the association list of a unit keeps the order
\* of the placements, and a unit carries the same list wherever it appears.
Placements == SeqsUpTo(Units \X EmployeeLists, MaxAssociations)

AssociationsAt(pl, unit) ==
    LET mine == SelectSeq(pl, LAMBDA p : p[1] = unit)
    IN  [k \in 1..Len(mine) |-> RawAssociation(mine[k][2])]

\* an empty association list is sent as [] or, when omitted, not at all
AssociationsField(list, omitted) ==
    IF omitted /\ list = <<>> THEN None ELSE Some(list)

RawCurrentUnit(cur, rel, pl, omit, wrappers) ==
    [uuid |-> cur,
     related_units |->
        Copies([org_units |->
                  [k \in 1..Len(rel) |->
                     [uuid |-> rel[k],
                      associations |->
                         AssociationsField(AssociationsAt(pl, rel[k]),
                                           omit = "related")]]],
               wrappers),
     associations |-> AssociationsField(AssociationsAt(pl, cur), omit = "current")]

\* the scalar fields of the engagement in the test fixture
\* (_non_nullable_engagement_fields)
BaseFields ==
    [job_function_uuid |-> "JF", engagement_type_uuid |-> "ET",
     primary_uuid |-> "PR", user_key |-> "user_key",
     validity |-> Some([from |-> "2022-12-31", to |-> Missing])]

FieldVariants ==
    {BaseFields,
     [BaseFields EXCEPT !.validity = Some([from |-> "2023-01-15", to |-> "2023-01-15"])],
     [BaseFields EXCEPT !.job_function_uuid = Missing],
     [BaseFields EXCEPT !.engagement_type_uuid = Missing],
     [BaseFields EXCEPT !.primary_uuid = Missing],
     [BaseFields EXCEPT !.user_key = Missing],
     [BaseFields EXCEPT !.validity = None],
     [BaseFields EXCEPT !.validity = Some([from |-> Missing, to |-> Missing])]}

RawEngagement(unit, units, fields) ==
    [org_unit |-> Copies(unit, units),
     job_function_uuid |-> fields.job_function_uuid,
     engagement_type_uuid |-> fields.engagement_type_uuid,
     primary_uuid |-> fields.primary_uuid,
     user_key |-> fields.user_key,
     validity |-> fields.validity]

RawResult(engagement, objects, lists) ==
    [engagements |-> Some(Copies([objects |-> Copies(engagement, objects)], lists))]

\* the empty dict, the default response of the test harness
EmptyResult == [engagements |-> None]

\* The current unit of a mocked response; the related units range over
\* Units, so a related unit equals it or differs from it.
CurrentUnits == {"U1"}

\* responses in which every list that must hold one element holds one: every
\* related list and every placement of associations, the current unit's
\* empty association list sent or omitted
ShapedResponses ==
    {RawResult(RawEngagement(RawCurrentUnit(cur, rel, pl, omit, 1), 1, BaseFields), 1, 1) :
        cur \in CurrentUnits, rel \in RelatedSeqs, pl \in Placements,
        omit \in {"none", "current"}}

\* responses in which the related units' empty association lists are omitted
OmittingResponses ==
    {RawResult(RawEngagement(RawCurrentUnit(cur, rel, pl, "related", 1), 1, BaseFields),
               1, 1) :
        cur \in CurrentUnits, rel \in RelatedSeqs,
        pl \in SeqsUpTo(CurrentUnits \X EmployeeLists, 1)}

\* responses with one structural defect: a list that must hold one element
\* holding none or several, or an engagement field absent
Defects ==
    {[lists |-> n, objects |-> 1, units |-> 1, wrappers |-> 1] : n \in 0..MaxCopies}
    \cup {[lists |-> 1, objects |-> n, units |-> 1, wrappers |-> 1] : n \in 0..MaxCopies}
    \cup {[lists |-> 1, objects |-> 1, units |-> n, wrappers |-> 1] : n \in 0..MaxCopies}
    \cup {[lists |-> 1, objects |-> 1, units |-> 1, wrappers |-> n] : n \in 0..MaxCopies}

DefectiveResponses ==
    {RawResult(RawEngagement(RawCurrentUnit(cur, rel, <<>>, "current", d.wrappers),
                             d.units, f), d.objects, d.lists) :
        cur \in CurrentUnits \cup {Missing}, rel \in SeqsUpTo(Units, 1),
        d \in Defects, f \in FieldVariants}

RawResponses ==
    ShapedResponses \cup OmittingResponses \cup DefectiveResponses \cup {EmptyResult}

(***************************************************************************)
(* The pydantic models of the lookup response and _Result.parse_obj.       *)
(***************************************************************************)
\* a UUID field accepts every id of the model and rejects an absent value
IsUUID(v) == v # Missing

Valid_Employee(e) == IsUUID(e.uuid)

Valid_Association(a) ==
    \A k \in 1..Len(a.employee) : Valid_Employee(a.employee[k])

Valid_OrgUnit(u) ==
    /\ IsUUID(u.uuid)
    /\ IsSome(u.associations)
    /\ \A k \in 1..Len(Get(u.associations)) : Valid_Association(Get(u.associations)[k])

Valid_OrgUnitList(w) ==
    \A k \in 1..Len(w.org_units) : Valid_OrgUnit(w.org_units[k])

\* Valid_OrgUnitWithRelatedUnits without max_items on related_units
Valid_OrgUnitWithRelatedUnits_NoMax(u) ==
    /\ IsUUID(u.uuid)
    /\ Len(u.related_units) >= 1
    /\ \A k \in 1..Len(u.related_units) : Valid_OrgUnitList(u.related_units[k])
    /\ IsSome(u.associations) =>
          \A k \in 1..Len(Get(u.associations)) :
             Valid_Association(Get(u.associations)[k])

Valid_OrgUnitWithRelatedUnits(u) ==
    /\ IsUUID(u.uuid)
    /\ Len(u.related_units) >= 1
    /\ Len(u.related_units) <= 1
    /\ \A k \in 1..Len(u.related_units) : Valid_OrgUnitList(u.related_units[k])
    /\ IsSome(u.associations) =>
          \A k \in 1..Len(Get(u.associations)) :
             Valid_Association(Get(u.associations)[k])

Valid_Validity(v) == IsSome(v) /\ Get(v).from # Missing

\* Valid_Engagement with primary_uuid declared optional
Valid_Engagement_OptionalPrimary(e) ==
    /\ Len(e.org_unit) >= 1
    /\ Len(e.org_unit) <= 1
    /\ \A k \in 1..Len(e.org_unit) : Valid_OrgUnitWithRelatedUnits(e.org_unit[k])
    /\ IsUUID(e.job_function_uuid)
    /\ IsUUID(e.engagement_type_uuid)
    /\ e.user_key # Missing
    /\ Valid_Validity(e.validity)

Valid_Engagement(e) ==
    /\ Len(e.org_unit) >= 1
    /\ Len(e.org_unit) <= 1
    /\ \A k \in 1..Len(e.org_unit) : Valid_OrgUnitWithRelatedUnits(e.org_unit[k])
    /\ IsUUID(e.job_function_uuid)
    /\ IsUUID(e.engagement_type_uuid)
    /\ IsUUID(e.primary_uuid)
    /\ e.user_key # Missing
    /\ Valid_Validity(e.validity)

Valid_EngagementList(l) ==
    /\ Len(l.objects) >= 1
    /\ Len(l.objects) <= 1
    /\ \A k \in 1..Len(l.objects) : Valid_Engagement(l.objects[k])

\* _Result.parse_obj(result) does not raise ValidationError
Valid_Result(r) ==
    /\ IsSome(r.engagements)
    /\ Len(Get(r.engagements)) >= 1
    /\ Len(Get(r.engagements)) <= 1
    /\ \A k \in 1..Len(Get(r.engagements)) : Valid_EngagementList(Get(r.engagements)[k])

\* a date string of the response becomes a datetime at midnight; strftime
\* with "%Y-%m-%d" keeps its day
ParseDate(s) == [date |-> s, time |-> "00:00:00"]
Strftime(dt) == dt.date

\* the parsed engagement: the org unit is reached under org_units (the alias
\* of org_unit) and validity holds a datetime
Parse_Engagement(e) ==
    [org_units |-> e.org_unit,
     job_function_uuid |-> e.job_function_uuid,
     engagement_type_uuid |-> e.engagement_type_uuid,
     primary_uuid |-> e.primary_uuid,
     user_key |-> e.user_key,
     validity |-> [from_date |-> ParseDate(Get(e.validity).from),
                   to_date |-> Get(e.validity).to]]

\* parsed_result.engagements[0].objects[0]
Parse_Result(r) == Parse_Engagement(Get(r.engagements)[1].objects[1])

(***************************************************************************)
(* The helpers of the handler.                                             *)
(***************************************************************************)
\* more_itertools.first_true(seq, pred): the first element satisfying pred
\* as an option, None when there is none; pred is given by its value at
\* each position of seq
FirstTrue(seq, pred) ==
    IF \E k \in 1..Len(seq) : pred[k]
    THEN Some(seq[CHOOSE k \in 1..Len(seq) :
                     pred[k] /\ \A j \in 1..(k - 1) : ~pred[j]])
    ELSE None

\* find_related_unit without the comparison of ids: the first related unit
find_related_unit_Unfiltered(related_units, current_org_unit) ==
    FirstTrue(related_units, [k \in 1..Len(related_units) |-> TRUE])

\* find_related_unit taking the last related unit that differs
find_related_unit_Last(related_units, current_org_unit) ==
    IF \E k \in 1..Len(related_units) : related_units[k].uuid # current_org_unit.uuid
    THEN Some(related_units[CHOOSE k \in 1..Len(related_units) :
                  /\ related_units[k].uuid # current_org_unit.uuid
                  /\ \A j \in (k + 1)..Len(related_units) :
                        related_units[j].uuid = current_org_unit.uuid])
    ELSE None

find_related_unit(related_units, current_org_unit) ==
    FirstTrue(related_units,
              [k \in 1..Len(related_units) |->
                  related_units[k].uuid # current_org_unit.uuid])

\* The predicate of find_current_association reads assoc.employee[0], which
\* raises IndexError on an empty employee list.  The scan stops at the first
\* match; raised tells whether an empty list was met before it.
RECURSIVE ScanAssociations(_, _, _)
ScanAssociations(employee_uuid, associations, k) ==
    IF k > Len(associations) THEN [raised |-> FALSE, value |-> None]
    ELSE IF Len(associations[k].employee) = 0 THEN [raised |-> TRUE, value |-> None]
    ELSE IF associations[k].employee[1].uuid = employee_uuid
         THEN [raised |-> FALSE, value |-> Some(associations[k])]
    ELSE ScanAssociations(employee_uuid, associations, k + 1)

\* find_current_association that never finds an association
find_current_association_NeverFinds(employee_uuid, associations) ==
    [raised |-> FALSE, value |-> None]

\* find_current_association looking at the first association only
find_current_association_FirstOnly(employee_uuid, associations) ==
    ScanAssociations(employee_uuid,
                     IF associations = <<>> THEN <<>> ELSE <<associations[1]>>, 1)

find_current_association(employee_uuid, associations) ==
    ScanAssociations(employee_uuid, associations, 1)

\* org_unit.associations or []
get_association_list(org_unit) ==
    IF IsSome(org_unit.associations) THEN Get(org_unit.associations) ELSE <<>>

get_association_obj(employee_uuid, current_org_unit, association_type_uuid, now) ==
    [person |-> employee_uuid,
     org_unit |-> current_org_unit.uuid,
     association_type |-> association_type_uuid,
     from_date |-> Strftime(now)]

get_engagement_obj(employee_uuid, engagement_uuid, engagement, other_unit) ==
    [uuid |-> engagement_uuid,
     person |-> employee_uuid,
     org_unit |-> other_unit.uuid,
     job_function |-> engagement.job_function_uuid,
     engagement_type |-> engagement.engagement_type_uuid,
     primary |-> engagement.primary_uuid,
     user_key |-> engagement.user_key,
     from_date |-> Strftime(engagement.validity.from_date)]

\* ResultType: the dataclass defaults are dry_run = False and no payloads
ResultType(action) ==
    [action |-> action, dry_run |-> FALSE, association |-> None, engagement |-> None]

Actions ==
    {"BAIL_VALIDATION_ERROR", "BAIL_TERMINATE_NOT_SUPPORTED", "BAIL_NO_RELATED_ORG_UNITS",
     "BAIL_FOUND_REVERSE_ASSOCIATION", "SKIP_ALREADY_PROCESSED",
     "SUCCESS_PROCESSED_ENGAGEMENT"}

\* _AssociationTypeUUID.parse_obj: exactly one class with a uuid
Valid_AssociationTypeUUID(r) ==
    /\ IsSome(r.classes)
    /\ Len(Get(r.classes)) >= 1
    /\ Len(Get(r.classes)) <= 1
    /\ \A k \in 1..Len(Get(r.classes)) : IsUUID(Get(r.classes)[k].uuid)

\* the responses of the association type lookup: no classes key, no class,
\* one class, several classes
ClassResponses ==
    {[classes |-> None]}
    \cup {[classes |-> Some(Copies([uuid |-> "AT"], n))] : n \in 0..MaxCopies}

(***************************************************************************)
(* gather_with_concurrency: the awaitables passed and the semaphore.       *)
(***************************************************************************)
MaxTasks == 3
MaxParallel == 2

Values == {"a", "b"}

\* what awaiting a task ends in: a value returned or an error raised
Awaitables ==
    [kind : {"return"}, value : Values] \cup {[kind |-> "raise", value |-> "Error"]}

\* before the call
NotGathering ==
    [pc |-> "idle", parallel |-> 0, value |-> 0, tasks |-> <<>>, state |-> <<>>,
     results |-> <<>>, ret |-> None, exc |-> Missing]

\* Semaphore.locked without its test: the semaphore always lets a task in
locked_Never(g) == FALSE

\* Semaphore.locked
locked(g) == g.value = 0

\* gather_with_concurrency up to its await: the semaphore is created and
\* gather wraps every semaphore_task in a task of the event loop
gather_with_concurrency(parallel, tasks) ==
    [pc |-> "gathering", parallel |-> parallel, value |-> parallel, tasks |-> tasks,
     state |-> [t \in 1..Len(tasks) |-> "scheduled"],
     results |-> [t \in 1..Len(tasks) |-> Missing], ret |-> None, exc |-> Missing]

\* semaphore_task reaches `async with semaphore`: it enters and awaits its
\* task, or waits for a release
semaphore_task(g, t) ==
    IF locked(g)
    THEN [g EXCEPT !.state[t] = "waiting"]
    ELSE [g EXCEPT !.state[t] = "running", !.value = @ - 1]

\* the awaited task ends: the semaphore is released on the way out; gather
\* keeps a result at the position of its task and passes the first error on
task_done(g, t) ==
    IF g.tasks[t].kind = "return"
    THEN [g EXCEPT !.state[t] = "done", !.value = @ + 1,
                   !.results[t] = g.tasks[t].value]
    ELSE [g EXCEPT !.state[t] = "raised", !.value = @ + 1,
                   !.pc = IF @ = "gathering" THEN "raised" ELSE @,
                   !.exc = IF g.pc = "gathering" THEN g.tasks[t].value ELSE @]

(***************************************************************************)
(* get_bulk_update_payloads: the listing of all engagements and the        *)
(* payloads generated from it.                                             *)
(***************************************************************************)
MaxListed == 2
MaxObjects == 2

ListedEngagements == {"G1", "G2"}

\* the objects of an engagement of the listing, each naming an employee
RawObjectsFlat == SeqsUpTo([employee_uuid : Employees \cup {Missing}], MaxObjects)

\* the engagements of a listing: every engagement is listed once
ListedUuids ==
    {m \in SeqsUpTo(ListedEngagements, MaxListed) :
        \A j, k \in 1..Len(m) : j # k => m[j] # m[k]}

\* the listings of a backend
Listings ==
    UNION {{[engagements |-> [k \in 1..Len(m) |-> [uuid |-> m[k], objects |-> objects[k]]]] :
                objects \in [1..Len(m) -> RawObjectsFlat]} : m \in ListedUuids}

Valid_EmployeeFlat(e) == IsUUID(e.employee_uuid)

Valid_EngagementFlat(e) ==
    /\ IsUUID(e.uuid)
    /\ \A k \in 1..Len(e.objects) : Valid_EmployeeFlat(e.objects[k])

Valid_EngagementResult(r) ==
    \A k \in 1..Len(r.engagements) : Valid_EngagementFlat(r.engagements[k])

\* the generator before its first item is asked for
NotListing ==
    [pc |-> "idle", engagements |-> <<>>, engagement |-> 0, employee |-> 0,
     yielded |-> <<>>, exc |-> Missing]

\* the loops of the generator move on from object `employee` of engagement
\* `engagement` to the next object there is, or run out
RECURSIVE NextObject(_, _, _)
NextObject(engagements, engagement, employee) ==
    IF engagement > Len(engagements) THEN <<engagement, 0>>
    ELSE IF employee < Len(engagements[engagement].objects)
         THEN <<engagement, employee + 1>>
         ELSE NextObject(engagements, engagement + 1, 0)

\* the generator runs up to its next yield: the object the loops stop at
\* becomes a payload, or the loops are over
Advance(b, now) ==
    LET at == NextObject(b.engagements, b.engagement, b.employee)
    IN  IF at[1] > Len(b.engagements)
        THEN [b EXCEPT !.pc = "exhausted", !.engagement = at[1], !.employee = at[2]]
        ELSE [b EXCEPT !.pc = "yielded", !.engagement = at[1], !.employee = at[2],
                       !.yielded = Append(@,
                           [uuid |-> b.engagements[at[1]].objects[at[2]].employee_uuid,
                            object_uuid |-> b.engagements[at[1]].uuid,
                            time |-> now])]

\* the listing query has returned result: it is parsed and the loops begin
get_bulk_update_payloads(b, result, now) ==
    IF ~Valid_EngagementResult(result)
    THEN [b EXCEPT !.pc = "raised", !.exc = "ValidationError"]
    ELSE Advance([b EXCEPT !.engagements = result.engagements, !.engagement = 1,
                           !.employee = 0], now)

(***************************************************************************)
(* The state.                                                              *)
(***************************************************************************)
VARIABLES
    inv,        \* the frame of every invocation of handle_engagement_update
    logger,     \* the engagement uuid bound to the module-level logger
    log,        \* the messages logged by the handler
    gql_calls,  \* the queries passed to gql_client.execute
    uploads,    \* the calls of model_client.upload_object
    mo,         \* the backend: where engagements live, relations, associations
    gather,     \* the call of gather_with_concurrency: semaphore and tasks
    bulk        \* the generator get_bulk_update_payloads

vars == <<inv, logger, log, gql_calls, uploads, mo, gather, bulk>>

RequestTypes == {"create", "edit", "terminate"}

SettingsSet == [dry_run : BOOLEAN, association_type : {"marker"}]

Payloads == [uuid : Employees, object_uuid : Engagements]

\* the frame of an invocation that has not started
Pending ==
    [pc |-> "pending", dry_run |-> FALSE, association_type |-> Missing,
     request_type |-> Missing, employee_uuid |-> Missing, engagement_uuid |-> Missing,
     result |-> None, classes |-> None, current_engagement |-> None,
     other_unit |-> None,
     new_association |-> None, edited_engagement |-> None,
     ret |-> None, exc |-> Missing, message |-> None]

Return(call, result) == [call EXCEPT !.pc = "returned", !.ret = Some(result)]
Raise(call, exception) == [call EXCEPT !.pc = "raised", !.exc = exception]

\* what a block of the handler leaves behind: the frame, the messages it
\* logged, the query it awaits and the upload it awaits
Block(call, events, query, upload) ==
    [call |-> call, events |-> events, query |-> query, upload |-> upload]

(***************************************************************************)
(* handle_engagement_update, block by block.                               *)
(***************************************************************************)
\* HandleStart without the guard on terminate events
HandleStart_NoTerminateGuard(call, settings, request_type, payload) ==
    Block([call EXCEPT !.dry_run = settings.dry_run,
                       !.association_type = settings.association_type,
                       !.request_type = request_type,
                       !.employee_uuid = payload.uuid,
                       !.engagement_uuid = payload.object_uuid,
                       !.pc = "await_lookup"],
          <<>>,
          Some([query |-> "RelatedOrgUnitQuery", variables |-> <<payload.object_uuid>>]),
          None)

\* from the call to the await of the lookup query
HandleStart(call, settings, request_type, payload) ==
    LET frame == [call EXCEPT !.dry_run = settings.dry_run,
                              !.association_type = settings.association_type,
                              !.request_type = request_type,
                              !.employee_uuid = payload.uuid,
                              !.engagement_uuid = payload.object_uuid]
    IN  IF request_type = "terminate"
        THEN Block(Return(frame, ResultType("BAIL_TERMINATE_NOT_SUPPORTED")),
                   <<"Don't yet know how to handle engagement terminations, sorry">>,
                   None, None)
        ELSE Block([frame EXCEPT !.pc = "await_lookup"], <<>>,
                   Some([query |-> "RelatedOrgUnitQuery",
                         variables |-> <<payload.object_uuid>>]),
                   None)

\* The call of the handler with its three last arguments as objects: reading
\* mo_routing_key.request_type is the first thing the handler does, and it
\* raises AttributeError when the object bound to mo_routing_key has no such
\* attribute.
handle_engagement_update(call, settings, mo_routing_key, payload) ==
    IF "request_type" \notin DOMAIN mo_routing_key
    THEN Block(Raise(call, "AttributeError"), <<>>, None, None)
    ELSE HandleStart(call, settings, mo_routing_key.request_type, payload)

\* on_amqp_message passes the routing key, the payload and the settings, in
\* this order, as the third, fourth and fifth positional argument
on_amqp_message(call, mo_routing_key, payload, settings) ==
    handle_engagement_update(call, mo_routing_key, payload, settings)

\* ValidationFailed with the result of the soft lookups of an earlier revision
ValidationFailed_NoRelatedUnits(call) ==
    Block(Return(call, ResultType("BAIL_NO_RELATED_ORG_UNITS")), <<"validation error">>,
          None, None)

\* the except branch of the parse: the error is logged and folded into a result
ValidationFailed(call) ==
    Block(Return(call, ResultType("BAIL_VALIDATION_ERROR")), <<"validation error">>,
          None, None)

\* CheckAssociations with the two guards in the opposite order
CheckAssociations_CurrentFirst(employee_uuid, current_org_unit, other_unit) ==
    LET reverse_association ==
            find_current_association(employee_uuid, get_association_list(other_unit))
        current_association ==
            find_current_association(employee_uuid, get_association_list(current_org_unit))
    IN  IF current_association.raised THEN "IndexError"
        ELSE IF IsSome(current_association.value) THEN "SKIP_ALREADY_PROCESSED"
        ELSE IF reverse_association.raised THEN "IndexError"
        ELSE IF IsSome(reverse_association.value) THEN "BAIL_FOUND_REVERSE_ASSOCIATION"
        ELSE "proceed"

\* CheckAssociations scanning the other unit's list in both guards
CheckAssociations_SameList(employee_uuid, current_org_unit, other_unit) ==
    LET reverse_association ==
            find_current_association(employee_uuid, get_association_list(other_unit))
    IN  IF reverse_association.raised THEN "IndexError"
        ELSE IF IsSome(reverse_association.value) THEN "BAIL_FOUND_REVERSE_ASSOCIATION"
        ELSE "proceed"

\* CheckAssociations without the guard on the other unit
CheckAssociations_NoReverseGuard(employee_uuid, current_org_unit, other_unit) ==
    LET current_association ==
            find_current_association(employee_uuid, get_association_list(current_org_unit))
    IN  IF current_association.raised THEN "IndexError"
        ELSE IF ~IsSome(current_association.value) THEN "proceed"
        ELSE "SKIP_ALREADY_PROCESSED"

\* The two re-entrancy guards: the name of the result, "proceed" when neither
\* unit holds an association for the employee, "IndexError" when a scan raised.
CheckAssociations(employee_uuid, current_org_unit, other_unit) ==
    LET reverse_association ==
            find_current_association(employee_uuid, get_association_list(other_unit))
        current_association ==
            find_current_association(employee_uuid, get_association_list(current_org_unit))
    IN  IF reverse_association.raised THEN "IndexError"
        ELSE IF IsSome(reverse_association.value) THEN "BAIL_FOUND_REVERSE_ASSOCIATION"
        ELSE IF current_association.raised THEN "IndexError"
        ELSE IF ~IsSome(current_association.value) THEN "proceed"
        ELSE "SKIP_ALREADY_PROCESSED"

\* from the result of the lookup query to a return, or to the await of the
\* association type query in _get_association_type_uuid
HandleLookup(frame, result) ==
    LET call == [frame EXCEPT !.result = Some(result)] IN
    IF ~Valid_Result(result) THEN ValidationFailed(call)
    ELSE
    LET current_engagement == Parse_Result(result)
        current_org_unit == current_engagement.org_units[1]
        related_units == current_org_unit.related_units[1].org_units
        other_unit == find_related_unit(related_units, current_org_unit)
    IN  IF ~IsSome(other_unit)
        THEN Block(Return(call, ResultType("BAIL_NO_RELATED_ORG_UNITS")), <<>>, None, None)
        ELSE
        LET found == <<"Found related unit">>
            guard == CheckAssociations(call.employee_uuid, current_org_unit,
                                       Get(other_unit))
        IN  CASE guard = "IndexError" ->
                    Block(Raise(call, "IndexError"), found, None, None)
              [] guard = "BAIL_FOUND_REVERSE_ASSOCIATION" ->
                    Block(Return(call, ResultType(guard)),
                          found \o <<"Found association in other unit, doing nothing">>,
                          None, None)
              [] guard = "SKIP_ALREADY_PROCESSED" ->
                    Block(Return(call, ResultType(guard)),
                          found \o <<"Already processed this engagement, doing nothing">>,
                          None, None)
              [] guard = "proceed" ->
                    Block([call EXCEPT !.pc = "await_classes",
                                       !.current_engagement = Some(current_engagement),
                                       !.other_unit = other_unit],
                          found,
                          Some([query |-> "AssociationTypeUUID",
                                variables |-> <<call.association_type>>]),
                          None)

\* Process ignoring the dry-run setting
Process_IgnoresDryRun(call) ==
    Block([call EXCEPT !.pc = "await_association"], <<>>, None,
          Some([object |-> Get(call.new_association), edit |-> FALSE]))

\* the dry run logs the two payloads and returns; the live run awaits the
\* association upload of _process_engagement
Process(call) ==
    IF call.dry_run
    THEN Block(Return(call, [action |-> "SUCCESS_PROCESSED_ENGAGEMENT",
                             engagement |-> call.edited_engagement,
                             association |-> call.new_association,
                             dry_run |-> call.dry_run]),
               <<"Would create association", "Would update engagement">>,
               None, None)
    ELSE Block([call EXCEPT !.pc = "await_association"], <<>>, None,
               Some([object |-> Get(call.new_association), edit |-> FALSE]))

\* HandleClasses folding an unresolved association type into a result, the
\* way the lookup's validation error is folded
HandleClasses_FoldsError(frame, result, now) ==
    LET call == [frame EXCEPT !.classes = Some(result)] IN
    IF ~Valid_AssociationTypeUUID(result)
    THEN Block(Return(call, ResultType("BAIL_VALIDATION_ERROR")), <<>>, None, None)
    ELSE
    LET association_type_uuid == Get(result.classes)[1].uuid
        current_engagement == Get(call.current_engagement)
        new_association ==
            get_association_obj(call.employee_uuid, current_engagement.org_units[1],
                                association_type_uuid, now)
        edited_engagement ==
            get_engagement_obj(call.employee_uuid, call.engagement_uuid,
                               current_engagement, Get(call.other_unit))
    IN  Process([call EXCEPT !.new_association = Some(new_association),
                             !.edited_engagement = Some(edited_engagement)])

\* from the result of the association type query to the dry run's return, or
\* to the await of the association upload
HandleClasses(frame, result, now) ==
    LET call == [frame EXCEPT !.classes = Some(result)] IN
    IF ~Valid_AssociationTypeUUID(result)
    THEN Block(Raise(call, "ValueError"), <<>>, None, None)
    ELSE
    LET association_type_uuid == Get(result.classes)[1].uuid
        current_engagement == Get(call.current_engagement)
        new_association ==
            get_association_obj(call.employee_uuid, current_engagement.org_units[1],
                                association_type_uuid, now)
        edited_engagement ==
            get_engagement_obj(call.employee_uuid, call.engagement_uuid,
                               current_engagement, Get(call.other_unit))
    IN  Process([call EXCEPT !.new_association = Some(new_association),
                             !.edited_engagement = Some(edited_engagement)])

\* _process_engagement, from the response of the association upload to the
\* await of the engagement upload
HandleAssociationResponse(call) ==
    Block([call EXCEPT !.pc = "await_engagement"], <<"Created association">>, None,
          Some([object |-> Get(call.edited_engagement), edit |-> TRUE]))

\* HandleEngagementResponse returning the bare action, as the guards do
HandleEngagementResponse_BareAction(call) ==
    Block(Return(call, ResultType("SUCCESS_PROCESSED_ENGAGEMENT")),
          <<"Updated engagement">>, None, None)

\* from the response of the engagement upload to the return
HandleEngagementResponse(call) ==
    Block(Return(call, [action |-> "SUCCESS_PROCESSED_ENGAGEMENT",
                        engagement |-> call.edited_engagement,
                        association |-> call.new_association,
                        dry_run |-> call.dry_run]),
          <<"Updated engagement">>, None, None)

(***************************************************************************)
(* The backend behind the live clients.                                    *)
(***************************************************************************)
\* a relation is the pair of units it relates, in the order the backend
\* lists them
RelationPairs == {r \in Units \X Units : r[1] # r[2]}

\* some enumeration of a finite set
RECURSIVE SetToSeq(_)
SetToSeq(S) ==
    IF S = {} THEN <<>>
    ELSE LET x == CHOOSE y \in S : TRUE IN <<x>> \o SetToSeq(S \ {x})

\* the mocked clients of the tests have no backend behind them
NoBackend ==
    [unit |-> [g \in Engagements |-> "U1"], person |-> [g \in Engagements |-> "E1"],
     relations |-> {}, associations |-> [u \in Units |-> <<>>], classes |-> 1]

\* the response of the backend b to RelatedOrgUnitQuery for one engagement
BackendLookup(b, engagement_uuid) ==
    LET current == b.unit[engagement_uuid]
        Associations(u) == Some([k \in 1..Len(b.associations[u]) |->
                                    RawAssociation(b.associations[u][k])])
        relations == SetToSeq({r \in b.relations : \E k \in 1..Len(r) : r[k] = current})
        unit == [uuid |-> current,
                 related_units |->
                    [k \in 1..Len(relations) |->
                       [org_units |->
                          [j \in 1..Len(relations[k]) |->
                             [uuid |-> relations[k][j],
                              associations |-> Associations(relations[k][j])]]]],
                 associations |-> Associations(current)]
    IN  RawResult(RawEngagement(unit, 1, BaseFields), 1, 1)

\* the response of the backend to AssociationTypeUUID
BackendClasses(b) == [classes |-> Some(Copies([uuid |-> "AT"], b.classes))]

\* the effect of an accepted upload on the backend
BackendUpload(b, upload) ==
    IF upload.edit
    THEN [b EXCEPT !.unit[upload.object.uuid] = upload.object.org_unit,
                   !.person[upload.object.uuid] = upload.object.person]
    ELSE [b EXCEPT !.associations[upload.object.org_unit] =
                      Append(@, <<upload.object.person>>)]

(***************************************************************************)
(* The actions: one per block of the handler, and one per failing await.   *)
(***************************************************************************)
Finished(i) == inv[i].pc \in {"returned", "raised"}

\* the upload invocation i is waiting for
AwaitedUpload(i) ==
    CHOOSE k \in 1..Len(uploads) : uploads[k].inv = i /\ ~uploads[k].done

\* the bookkeeping shared by all blocks: the frame, the log and the calls made
Leave(i, block, bound) ==
    /\ inv' = [inv EXCEPT ![i] = block.call]
    /\ log' = log \o [k \in 1..Len(block.events) |->
                        [inv |-> i, event |-> block.events[k], engagement_uuid |-> bound]]
    /\ gql_calls' = IF IsSome(block.query)
                    THEN Append(gql_calls, [inv |-> i, query |-> Get(block.query).query,
                                            variables |-> Get(block.query).variables])
                    ELSE gql_calls
    /\ UNCHANGED <<gather, bulk>>

Submit(i, block, done) ==
    LET answered == [k \in 1..Len(uploads) |->
                        IF k \in done THEN [uploads[k] EXCEPT !.done = TRUE] ELSE uploads[k]]
    IN  uploads' = IF IsSome(block.upload)
                   THEN Append(answered, [inv |-> i, object |-> Get(block.upload).object,
                                          edit |-> Get(block.upload).edit, done |-> FALSE])
                   ELSE answered

\* the handler is called; a terminate event returns at once, any other event
\* binds its engagement uuid to the logger and awaits the lookup query
Invoke(i, settings, request_type, payload) ==
    /\ inv[i].pc = "pending"
    /\ LET block == HandleStart(inv[i], settings, request_type, payload)
       IN  /\ Leave(i, block, logger)
           /\ Submit(i, block, {})
           /\ logger' = IF request_type = "terminate" THEN logger
                        ELSE Some(payload.object_uuid)
    /\ UNCHANGED mo

\* the lookup query returns result
LookupReturns(i, result) ==
    /\ inv[i].pc = "await_lookup"
    /\ LET block == HandleLookup(inv[i], result)
       IN  Leave(i, block, logger) /\ Submit(i, block, {})
    /\ UNCHANGED <<logger, mo>>

\* the association type query returns result
ClassesReturn(i, result) ==
    /\ inv[i].pc = "await_classes"
    /\ \E day \in Days :
          LET block == HandleClasses(inv[i], result, [date |-> day, time |-> "12:34:56"])
          IN  Leave(i, block, logger) /\ Submit(i, block, {})
    /\ UNCHANGED <<logger, mo>>

\* the association upload is answered
AssociationReturns(i) ==
    /\ inv[i].pc = "await_association"
    /\ LET block == HandleAssociationResponse(inv[i])
       IN  Leave(i, block, logger) /\ Submit(i, block, {AwaitedUpload(i)})
    /\ UNCHANGED logger

\* the engagement upload is answered
EngagementReturns(i) ==
    /\ inv[i].pc = "await_engagement"
    /\ LET block == HandleEngagementResponse(inv[i])
       IN  Leave(i, block, logger) /\ Submit(i, block, {AwaitedUpload(i)})
    /\ UNCHANGED logger

\* an awaited query raises: the handler catches nothing, the error leaves it
QueryFails(i) ==
    /\ inv[i].pc \in {"await_lookup", "await_classes"}
    /\ inv' = [inv EXCEPT ![i] = Raise(@, "TransportError")]
    /\ UNCHANGED <<logger, log, gql_calls, uploads, mo, gather, bulk>>

\* UploadFails with the error of the association upload caught and logged:
\* the handler carries on with the edit of the engagement
UploadFails_Swallowed(i) ==
    /\ inv[i].pc \in {"await_association", "await_engagement"}
    /\ LET block == IF inv[i].pc = "await_association"
                    THEN HandleAssociationResponse(inv[i])
                    ELSE HandleEngagementResponse(inv[i])
       IN  Leave(i, block, logger) /\ Submit(i, block, {})
    /\ UNCHANGED logger

\* an awaited upload raises
UploadFails(i) ==
    /\ inv[i].pc \in {"await_association", "await_engagement"}
    /\ inv' = [inv EXCEPT ![i] = Raise(@, "TransportError")]
    /\ UNCHANGED <<logger, log, gql_calls, uploads, gather, bulk>>

(***************************************************************************)
(* Spec: one invocation against mocked clients, as the tests run it.  The  *)
(* mocked GraphQL client answers with any response, the mocked model       *)
(* client only records the uploads.                                        *)
(***************************************************************************)
Init ==
    /\ inv = [i \in Invocations |-> Pending]
    /\ gather = NotGathering
    /\ bulk = NotListing
    /\ logger = None
    /\ log = <<>>
    /\ gql_calls = <<>>
    /\ uploads = <<>>
    /\ mo = NoBackend

MockInvoke ==
    /\ inv[1].pc = "pending"
    /\ \E settings \in SettingsSet, request_type \in RequestTypes, payload \in Payloads :
          Invoke(1, settings, request_type, payload)

MockLookupReturns ==
    /\ inv[1].pc = "await_lookup"
    /\ \E result \in RawResponses : LookupReturns(1, result)

MockClassesReturn ==
    /\ inv[1].pc = "await_classes"
    /\ \E result \in ClassResponses : ClassesReturn(1, result)

MockAssociationReturns == AssociationReturns(1) /\ UNCHANGED mo

MockEngagementReturns == EngagementReturns(1) /\ UNCHANGED mo

MockQueryFails == QueryFails(1)

MockUploadFails == UploadFails(1) /\ UNCHANGED mo

Next ==
    \/ MockInvoke
    \/ MockLookupReturns
    \/ MockClassesReturn
    \/ MockAssociationReturns
    \/ MockEngagementReturns
    \/ MockQueryFails
    \/ MockUploadFails

Spec == Init /\ [][Next]_vars

(***************************************************************************)
(* LiveSpec: events handled one at a time (prefetch_count = 1) against a   *)
(* live backend: every lookup reflects the uploads accepted before it.     *)
(***************************************************************************)
\* the association lists of a backend holding the placements pl
StoredAssociations(pl) ==
    [u \in Units |->
        LET mine == SelectSeq(pl, LAMBDA p : p[1] = u)
        IN  [k \in 1..Len(mine) |-> mine[k][2]]]

\* the relations of the backends explored: none, one relation in either
\* order, a relation elsewhere, and a unit with two relations
LiveRelations ==
    {{}, {<<"U1", "U2">>}, {<<"U2", "U1">>}, {<<"U2", "U3">>},
     {<<"U1", "U2">>, <<"U2", "U3">>}}

\* the backends explored: the engagement of employee E1 in any unit, no
\* association or one association anywhere, the association type configured
\* or not
Backends ==
    {[unit |-> unit, person |-> [g \in Engagements |-> "E1"], relations |-> relations,
      associations |-> StoredAssociations(pl), classes |-> classes] :
        unit \in [Engagements -> Units],
        relations \in LiveRelations,
        pl \in {<<>>} \cup {<<p>> : p \in Units \X EmployeeLists},
        classes \in {0, 1}}

LiveInit ==
    /\ inv = [i \in Invocations |-> Pending]
    /\ gather = NotGathering
    /\ bulk = NotListing
    /\ logger = None
    /\ log = <<>>
    /\ gql_calls = <<>>
    /\ uploads = <<>>
    /\ mo \in Backends

\* the settings are those of the process: every invocation gets the same
\* and the backend publishes events that carry the employee of the engagement;
\* an event is delivered when the handler of the one before it has finished
LiveInvoke ==
    \E i \in {j \in Invocations : inv[j].pc = "pending"} :
        \E settings \in SettingsSet, request_type \in RequestTypes, g \in Engagements :
            /\ \A j \in 1..(i - 1) : Finished(j)
            /\ \A j \in 1..(i - 1) : inv[j].dry_run = settings.dry_run
            /\ Invoke(i, settings, request_type, [uuid |-> mo.person[g], object_uuid |-> g])

LiveLookupReturns ==
    \E i \in Invocations : LookupReturns(i, BackendLookup(mo, inv[i].engagement_uuid))

LiveClassesReturn == \E i \in Invocations : ClassesReturn(i, BackendClasses(mo))

LiveAssociationReturns ==
    \E i \in Invocations :
        /\ AssociationReturns(i)
        /\ mo' = BackendUpload(mo, uploads[AwaitedUpload(i)])

LiveEngagementReturns ==
    \E i \in Invocations :
        /\ EngagementReturns(i)
        /\ mo' = BackendUpload(mo, uploads[AwaitedUpload(i)])

LiveQueryFails == \E i \in Invocations : QueryFails(i)

\* a failed upload was either rejected or accepted with its answer lost
LiveUploadFails ==
    \E i \in Invocations :
        /\ UploadFails(i)
        /\ \E accepted \in BOOLEAN :
              mo' = IF accepted THEN BackendUpload(mo, uploads[AwaitedUpload(i)]) ELSE mo

LiveNext ==
    \/ LiveInvoke
    \/ LiveLookupReturns
    \/ LiveClassesReturn
    \/ LiveAssociationReturns
    \/ LiveEngagementReturns
    \/ LiveQueryFails
    \/ LiveUploadFails

LiveSpec == LiveInit /\ [][LiveNext]_vars

(***************************************************************************)
(* AmqpSpec: the messages of the queue delivered to on_amqp_message, one   *)
(* at a time, with the settings of the application.                        *)
(***************************************************************************)
RoutingKeys ==
    [service_type : {"employee"}, object_type : {"engagement"},
     request_type : RequestTypes]

\* a message is delivered: on_amqp_message runs the handler up to its first
\* await, its return or its error
OnAmqpMessage ==
    \E i \in {j \in Invocations : inv[j].pc = "pending"} :
        \E mo_routing_key \in RoutingKeys, payload \in Payloads, settings \in SettingsSet :
            /\ \A j \in 1..(i - 1) : Finished(j)
            /\ LET message == [routing_key |-> mo_routing_key, payload |-> payload,
                               settings |-> settings]
                   block == on_amqp_message([inv[i] EXCEPT !.message = Some(message)],
                                            mo_routing_key, payload, settings)
               IN  /\ Leave(i, block, logger)
                   /\ Submit(i, block, {})
                   /\ logger' = IF block.call.pc = "await_lookup"
                                THEN Some(block.call.engagement_uuid)
                                ELSE logger
            /\ UNCHANGED mo

AmqpNext == OnAmqpMessage

AmqpSpec == Init /\ [][AmqpNext]_vars

(***************************************************************************)
(* ConcSpec: handlers for different engagements gathered on one event      *)
(* loop (gather_with_concurrency): a handler starts while others are       *)
(* suspended at an await, and the awaits are answered in any order.        *)
(***************************************************************************)
ConcEngagements == {"G1", "G2"}

\* the backends explored: two engagements, of one employee or of two, in the
\* two units of one relation
ConcBackends ==
    {[unit |-> unit, person |-> person, relations |-> {<<"U1", "U2">>},
      associations |-> [u \in Units |-> <<>>], classes |-> 1] :
        unit \in [ConcEngagements -> {"U1", "U2"}],
        person \in {p \in [ConcEngagements -> Employees] : p["G1"] = "E1"}}

ConcInit ==
    /\ inv = [i \in Invocations |-> Pending]
    /\ gather = NotGathering
    /\ bulk = NotListing
    /\ logger = None
    /\ log = <<>>
    /\ gql_calls = <<>>
    /\ uploads = <<>>
    /\ mo \in ConcBackends

\* the gathered handlers are started in order, each for an engagement of
\* its own, with the settings of the process
ConcInvoke ==
    \E i \in {j \in Invocations : inv[j].pc = "pending"} :
        \E settings \in SettingsSet, request_type \in RequestTypes,
           g \in ConcEngagements :
            /\ \A j \in 1..(i - 1) :
                  /\ inv[j].pc # "pending"
                  /\ inv[j].dry_run = settings.dry_run
                  /\ inv[j].engagement_uuid # g
            /\ Invoke(i, settings, request_type, [uuid |-> mo.person[g], object_uuid |-> g])

ConcNext ==
    \/ ConcInvoke
    \/ LiveLookupReturns
    \/ LiveClassesReturn
    \/ LiveAssociationReturns
    \/ LiveEngagementReturns
    \/ LiveQueryFails
    \/ LiveUploadFails

ConcSpec == ConcInit /\ [][ConcNext]_vars

(***************************************************************************)
(* SerialSpec: created and edited events for several engagements and       *)
(* employees handled one at a time (prefetch_count = 1) against a live     *)
(* backend.                                                                *)
(***************************************************************************)
\* a created or edited event for any engagement is delivered when the
\* handler of the one before it has finished
SerialInvoke ==
    \E i \in {j \in Invocations : inv[j].pc = "pending"} :
        \E settings \in SettingsSet, request_type \in {"create", "edit"},
           g \in ConcEngagements :
            /\ \A j \in 1..(i - 1) : Finished(j)
            /\ \A j \in 1..(i - 1) : inv[j].dry_run = settings.dry_run
            /\ Invoke(i, settings, request_type, [uuid |-> mo.person[g], object_uuid |-> g])

SerialNext ==
    \/ SerialInvoke
    \/ LiveLookupReturns
    \/ LiveClassesReturn
    \/ LiveAssociationReturns
    \/ LiveEngagementReturns
    \/ LiveQueryFails
    \/ LiveUploadFails

SerialSpec == ConcInit /\ [][SerialNext]_vars

(***************************************************************************)
(* GatherSpec: one call of gather_with_concurrency on the event loop.  The *)
(* event loop runs every task that is ready and every awaited task ends.   *)
(***************************************************************************)
handler_vars == <<inv, logger, log, gql_calls, uploads, mo, bulk>>

GatherInit ==
    /\ inv = [i \in Invocations |-> Pending]
    /\ logger = None
    /\ log = <<>>
    /\ gql_calls = <<>>
    /\ uploads = <<>>
    /\ mo = NoBackend
    /\ gather = NotGathering
    /\ bulk = NotListing

GatherCalled ==
    /\ gather.pc = "idle"
    /\ \E parallel \in 1..MaxParallel, tasks \in SeqsUpTo(Awaitables, MaxTasks) :
          gather' = gather_with_concurrency(parallel, tasks)
    /\ UNCHANGED handler_vars

\* the event loop starts the tasks in the order gather created them
TaskStarts(t) ==
    /\ gather.pc # "idle"
    /\ t \in 1..Len(gather.tasks)
    /\ gather.state[t] = "scheduled"
    /\ \A u \in 1..(t - 1) : gather.state[u] # "scheduled"
    /\ gather' = semaphore_task(gather, t)
    /\ UNCHANGED handler_vars

\* a release wakes a task waiting for the semaphore
TaskWakes(t) ==
    /\ gather.pc # "idle"
    /\ t \in 1..Len(gather.tasks)
    /\ gather.state[t] = "waiting"
    /\ gather' = semaphore_task(gather, t)
    /\ gather'.state[t] = "running"
    /\ UNCHANGED handler_vars

TaskEnds(t) ==
    /\ gather.pc # "idle"
    /\ t \in 1..Len(gather.tasks)
    /\ gather.state[t] = "running"
    /\ gather' = task_done(gather, t)
    /\ UNCHANGED handler_vars

\* every task has returned: gather returns the list of their results
GatherReturns ==
    /\ gather.pc = "gathering"
    /\ \A t \in 1..Len(gather.tasks) : gather.state[t] = "done"
    /\ gather' = [gather EXCEPT !.pc = "returned", !.ret = Some(gather.results)]
    /\ UNCHANGED handler_vars

GatherNext ==
    \/ GatherCalled
    \/ \E t \in 1..MaxTasks : TaskStarts(t)
    \/ \E t \in 1..MaxTasks : TaskWakes(t)
    \/ \E t \in 1..MaxTasks : TaskEnds(t)
    \/ GatherReturns

GatherSpec ==
    /\ GatherInit
    /\ [][GatherNext]_vars
    /\ \A t \in 1..MaxTasks :
          WF_vars(TaskStarts(t)) /\ WF_vars(TaskWakes(t)) /\ WF_vars(TaskEnds(t))
    /\ WF_vars(GatherReturns)

(***************************************************************************)
(* BulkSpec: get_bulk_update_payloads consumed item by item against a      *)
(* mocked GraphQL client that answers with any listing.                    *)
(***************************************************************************)
\* the first item is asked for: the generator awaits the listing query
BulkStarts ==
    /\ bulk.pc = "idle"
    /\ bulk' = [bulk EXCEPT !.pc = "await_listing"]
    /\ gql_calls' = Append(gql_calls, [inv |-> 0, query |-> "EngagementUUID",
                                       variables |-> <<>>])
    /\ UNCHANGED <<inv, logger, log, uploads, mo, gather>>

BulkListingReturns ==
    /\ bulk.pc = "await_listing"
    /\ \E result \in Listings, now \in Days :
          bulk' = get_bulk_update_payloads(bulk, result, now)
    /\ UNCHANGED <<inv, logger, log, gql_calls, uploads, mo, gather>>

BulkListingFails ==
    /\ bulk.pc = "await_listing"
    /\ bulk' = [bulk EXCEPT !.pc = "raised", !.exc = "TransportError"]
    /\ UNCHANGED <<inv, logger, log, gql_calls, uploads, mo, gather>>

\* the next item is asked for
BulkNextItem ==
    /\ bulk.pc = "yielded"
    /\ \E now \in Days : bulk' = Advance(bulk, now)
    /\ UNCHANGED <<inv, logger, log, gql_calls, uploads, mo, gather>>

BulkNext ==
    \/ BulkStarts
    \/ BulkListingReturns
    \/ BulkListingFails
    \/ BulkNextItem

BulkSpec == GatherInit /\ [][BulkNext]_vars

(***************************************************************************)
(* The vocabulary of the properties.                                       *)
(***************************************************************************)
Returned(i) == inv[i].pc = "returned"
ActionOf(i) == Get(inv[i].ret).action
LookedUp(i) == IsSome(inv[i].result)
ResponseOf(i) == Get(inv[i].result)
UploadsOf(i) == SelectSeq(uploads, LAMBDA u : u.inv = i)
QueriesOf(i) == SelectSeq(gql_calls, LAMBDA q : q.inv = i)

\* the parts of a response r that passed the validation
EngagementIn(r) == Get(r.engagements)[1].objects[1]
CurrentUnitIn(r) == EngagementIn(r).org_unit[1]
RelatedIn(r) == CurrentUnitIn(r).related_units[1].org_units

\* the other unit: the first related unit whose id is not the current unit's
OthersIn(r) == {k \in 1..Len(RelatedIn(r)) : RelatedIn(r)[k].uuid # CurrentUnitIn(r).uuid}
HasOther(r) == OthersIn(r) # {}
OtherUnitIn(r) == RelatedIn(r)[CHOOSE k \in OthersIn(r) : \A j \in OthersIn(r) : k <= j]

AssociationsOf(unit) == IF IsSome(unit.associations) THEN Get(unit.associations) ELSE <<>>

\* the unit holds an association of employee e
HoldsAssociationFor(unit, e) ==
    \E k \in 1..Len(AssociationsOf(unit)) :
        AssociationsOf(unit)[k].employee = <<[uuid |-> e]>>

\* every association of the snapshot has exactly one employee
OneEmployeeEach(r) ==
    \A u \in {CurrentUnitIn(r)} \cup {RelatedIn(r)[k] : k \in 1..Len(RelatedIn(r))} :
        \A k \in 1..Len(AssociationsOf(u)) : Len(AssociationsOf(u)[k].employee) = 1

\* the first guard that matches, in the order of the specification
FirstMatch(request_type, employee, result) ==
    IF request_type = "terminate" THEN "BAIL_TERMINATE_NOT_SUPPORTED"
    ELSE IF ~Valid_Result(Get(result)) THEN "BAIL_VALIDATION_ERROR"
    ELSE IF ~HasOther(Get(result)) THEN "BAIL_NO_RELATED_ORG_UNITS"
    ELSE IF HoldsAssociationFor(OtherUnitIn(Get(result)), employee)
         THEN "BAIL_FOUND_REVERSE_ASSOCIATION"
    ELSE IF HoldsAssociationFor(CurrentUnitIn(Get(result)), employee)
         THEN "SKIP_ALREADY_PROCESSED"
    ELSE "SUCCESS_PROCESSED_ENGAGEMENT"

(***************************************************************************)
(* The properties.                                                         *)
(***************************************************************************)
\* C1: every result the handler returns is one of the six actions, the one of
\* the first guard that matches in the order terminate, validation error, no
\* related org units, reverse association, already processed, success; when
\* both units hold an association of the employee it is the reverse
\* association result.
C1_FirstMatchWins ==
    \A i \in Invocations :
        Returned(i) =>
            /\ ActionOf(i) \in Actions
            /\ ActionOf(i) = FirstMatch(inv[i].request_type, inv[i].employee_uuid,
                                        inv[i].result)

\* both units hold an association of the employee and the handler returned
C1_BothUnitsHold ==
    \E i \in Invocations :
        /\ Returned(i)
        /\ LookedUp(i)
        /\ Valid_Result(ResponseOf(i))
        /\ HasOther(ResponseOf(i))
        /\ HoldsAssociationFor(OtherUnitIn(ResponseOf(i)), inv[i].employee_uuid)
        /\ HoldsAssociationFor(CurrentUnitIn(ResponseOf(i)), inv[i].employee_uuid)
        /\ ActionOf(i) = "BAIL_FOUND_REVERSE_ASSOCIATION"

\* C2 as stated: when a live invocation returned success, the next invocation
\* for the same employee and engagement returns already processed or reverse
\* association found, and uploads nothing.
C2_SecondCallSkipsOrBails ==
    \A i \in Invocations, j \in Invocations :
        (/\ j = i + 1
         /\ Returned(i) /\ Returned(j)
         /\ ActionOf(i) = "SUCCESS_PROCESSED_ENGAGEMENT" /\ ~inv[i].dry_run
         /\ inv[j].request_type # "terminate"
         /\ inv[j].employee_uuid = inv[i].employee_uuid
         /\ inv[j].engagement_uuid = inv[i].engagement_uuid)
        => /\ ActionOf(j) \in {"SKIP_ALREADY_PROCESSED", "BAIL_FOUND_REVERSE_ASSOCIATION"}
           /\ UploadsOf(j) = <<>>

\* the relations of the backend that name the unit an engagement is in
RelationsOf(g) == {r \in mo.relations : \E k \in 1..Len(r) : r[k] = mo.unit[g]}

\* C2, amended: when a live invocation returned success, the next invocation
\* for the same employee and engagement uploads nothing; it returns already
\* processed or reverse association found when the unit the engagement was
\* moved to has exactly one relation, and a validation error otherwise.
C2_SecondCallWritesNothing ==
    \A i \in Invocations, j \in Invocations :
        (/\ j = i + 1
         /\ Returned(i) /\ Returned(j)
         /\ ActionOf(i) = "SUCCESS_PROCESSED_ENGAGEMENT" /\ ~inv[i].dry_run
         /\ inv[j].request_type # "terminate"
         /\ inv[j].employee_uuid = inv[i].employee_uuid
         /\ inv[j].engagement_uuid = inv[i].engagement_uuid)
        => /\ UploadsOf(j) = <<>>
           /\ IF Cardinality(RelationsOf(inv[j].engagement_uuid)) = 1
              THEN ActionOf(j) \in {"SKIP_ALREADY_PROCESSED",
                                    "BAIL_FOUND_REVERSE_ASSOCIATION"}
              ELSE ActionOf(j) = "BAIL_VALIDATION_ERROR"

\* a live success followed by a second invocation for the same event that
\* found the marker association in the unit the engagement came from
C2_SecondCallReturned ==
    \E i \in Invocations, j \in Invocations :
        /\ j = i + 1
        /\ Returned(i) /\ Returned(j)
        /\ ActionOf(i) = "SUCCESS_PROCESSED_ENGAGEMENT" /\ ~inv[i].dry_run
        /\ inv[j].employee_uuid = inv[i].employee_uuid
        /\ inv[j].engagement_uuid = inv[i].engagement_uuid
        /\ ActionOf(j) = "BAIL_FOUND_REVERSE_ASSOCIATION"
        /\ Len(UploadsOf(i)) = 2

\* C3: a dry run uploads nothing; a live run that returns success made
\* exactly two uploads, the association and then the edit of the engagement,
\* and no edit is ever submitted before the association upload was answered.
C3_UploadsOnProceedPath ==
    \A i \in Invocations :
        LET U == UploadsOf(i) IN
        /\ inv[i].dry_run => U = <<>>
        /\ Len(U) <= 2
        /\ \A k \in 1..Len(U) : U[k].edit => (k = 2 /\ ~U[1].edit /\ U[1].done)
        /\ (Returned(i) /\ ActionOf(i) = "SUCCESS_PROCESSED_ENGAGEMENT" /\ ~inv[i].dry_run)
              => /\ Len(U) = 2
                 /\ ~U[1].edit /\ U[1].done /\ U[1].object = Get(Get(inv[i].ret).association)
                 /\ U[2].edit /\ U[2].done /\ U[2].object = Get(Get(inv[i].ret).engagement)

\* a live run returned success after its two uploads
C3_LiveSuccess ==
    \E i \in Invocations :
        /\ Returned(i)
        /\ ActionOf(i) = "SUCCESS_PROCESSED_ENGAGEMENT"
        /\ ~inv[i].dry_run
        /\ Len(UploadsOf(i)) = 2

\* C4: an invocation for a terminate event has returned terminate not
\* supported, and has issued no query and no upload.
C4_TerminateShortCircuits ==
    \A i \in Invocations :
        inv[i].request_type = "terminate" =>
            /\ Returned(i)
            /\ ActionOf(i) = "BAIL_TERMINATE_NOT_SUPPORTED"
            /\ ~LookedUp(i)
            /\ QueriesOf(i) = <<>>
            /\ UploadsOf(i) = <<>>

\* a terminate event was handled
C4_TerminateHandled ==
    \E i \in Invocations :
        /\ inv[i].request_type = "terminate"
        /\ Returned(i)
        /\ gql_calls = <<>>

\* a list of the response that must hold one element is empty
EmptyRequiredList(r) ==
    /\ IsSome(r.engagements)
    /\ LET lists == Get(r.engagements)
           engagements == UNION {{l.objects[k] : k \in 1..Len(l.objects)} :
                                   l \in {lists[k] : k \in 1..Len(lists)}}
           units == UNION {{e.org_unit[k] : k \in 1..Len(e.org_unit)} : e \in engagements}
       IN  \/ lists = <<>>
           \/ \E k \in 1..Len(lists) : lists[k].objects = <<>>
           \/ \E e \in engagements : e.org_unit = <<>>
           \/ \E u \in units : u.related_units = <<>>

OneEngagementOneUnit(r) ==
    /\ IsSome(r.engagements)
    /\ Len(Get(r.engagements)) = 1
    /\ Len(Get(r.engagements)[1].objects) = 1
    /\ LET e == EngagementIn(r)
       IN  /\ e.job_function_uuid # Missing
           /\ e.engagement_type_uuid # Missing
           /\ e.primary_uuid # Missing
           /\ e.user_key # Missing
           /\ IsSome(e.validity)
           /\ Get(e.validity).from # Missing
           /\ Len(e.org_unit) = 1
           /\ e.org_unit[1].uuid # Missing

C6_EmptyRelatedUnitsBail ==
    \A i \in Invocations :
        (/\ LookedUp(i)
         /\ OneEngagementOneUnit(ResponseOf(i))
         /\ CurrentUnitIn(ResponseOf(i)).related_units = <<>>)
        => (Returned(i) /\ ActionOf(i) = "BAIL_NO_RELATED_ORG_UNITS")

\* C7: when the related list of a valid snapshot is empty or holds only units
\* with the id of the current unit, the handler returns no related org units,
\* whatever associations the snapshot holds.
C7_NoOtherUnitBails ==
    \A i \in Invocations :
        (LookedUp(i) /\ Valid_Result(ResponseOf(i)) /\ ~HasOther(ResponseOf(i)))
            => (Returned(i) /\ ActionOf(i) = "BAIL_NO_RELATED_ORG_UNITS")

\* the related list holds the current unit only, which holds an association
\* of the employee
C7_OnlyCurrentUnitRelated ==
    \E i \in Invocations :
        /\ LookedUp(i)
        /\ Valid_Result(ResponseOf(i))
        /\ Len(RelatedIn(ResponseOf(i))) >= 1
        /\ ~HasOther(ResponseOf(i))
        /\ HoldsAssociationFor(CurrentUnitIn(ResponseOf(i)), inv[i].employee_uuid)
        /\ HoldsAssociationFor(RelatedIn(ResponseOf(i))[1], inv[i].employee_uuid)
        /\ ActionOf(i) = "BAIL_NO_RELATED_ORG_UNITS"

\* a snapshot that passed the validation and has an other unit
ValidWithOther(i) ==
    /\ LookedUp(i)
    /\ Valid_Result(ResponseOf(i))
    /\ OneEmployeeEach(ResponseOf(i))
    /\ HasOther(ResponseOf(i))

\* C8: when the other unit of a valid snapshot holds an association of the
\* event's employee, at any position, the handler returns reverse association
\* found and uploads nothing.
C8_ReverseAssociationBails ==
    \A i \in Invocations :
        (/\ ValidWithOther(i)
         /\ HoldsAssociationFor(OtherUnitIn(ResponseOf(i)), inv[i].employee_uuid))
        => /\ Returned(i)
           /\ ActionOf(i) = "BAIL_FOUND_REVERSE_ASSOCIATION"
           /\ UploadsOf(i) = <<>>

\* the second association of the other unit is the one of the employee
C8_SecondAssociationMatches ==
    \E i \in Invocations :
        /\ ValidWithOther(i)
        /\ LET a == AssociationsOf(OtherUnitIn(ResponseOf(i)))
           IN  /\ Len(a) = 2
               /\ a[1].employee # <<[uuid |-> inv[i].employee_uuid]>>
               /\ a[2].employee = <<[uuid |-> inv[i].employee_uuid]>>
        /\ Returned(i)
        /\ ActionOf(i) = "BAIL_FOUND_REVERSE_ASSOCIATION"

\* C9: when the other unit of a valid snapshot holds no association of the
\* event's employee and the current unit holds one, the handler returns
\* already processed.
C9_CurrentAssociationSkips ==
    \A i \in Invocations :
        (/\ ValidWithOther(i)
         /\ ~HoldsAssociationFor(OtherUnitIn(ResponseOf(i)), inv[i].employee_uuid)
         /\ HoldsAssociationFor(CurrentUnitIn(ResponseOf(i)), inv[i].employee_uuid))
        => (Returned(i) /\ ActionOf(i) = "SKIP_ALREADY_PROCESSED")

\* the current unit holds the employee's association, the other unit one of
\* another employee
C9_OnlyCurrentUnitHolds ==
    \E i \in Invocations :
        /\ ValidWithOther(i)
        /\ AssociationsOf(OtherUnitIn(ResponseOf(i))) # <<>>
        /\ ~HoldsAssociationFor(OtherUnitIn(ResponseOf(i)), inv[i].employee_uuid)
        /\ HoldsAssociationFor(CurrentUnitIn(ResponseOf(i)), inv[i].employee_uuid)
        /\ Returned(i)
        /\ ActionOf(i) = "SKIP_ALREADY_PROCESSED"

\* the snapshot passes every guard
PassesAllGuards(i) ==
    /\ ValidWithOther(i)
    /\ ~HoldsAssociationFor(OtherUnitIn(ResponseOf(i)), inv[i].employee_uuid)
    /\ ~HoldsAssociationFor(CurrentUnitIn(ResponseOf(i)), inv[i].employee_uuid)

\* C10: when the snapshot passes every guard the handler does not return at
\* the guards, only a failed query, upload or association type lookup keeps
\* it from returning, and the result it returns is success with an
\* association of the employee in the current unit and an engagement with the
\* event's engagement id, the employee, the first related unit that differs
\* from the current unit, and the other fields of the snapshot's engagement.
C10_SuccessPayloads ==
    \A i \in Invocations :
        PassesAllGuards(i) =>
            /\ inv[i].pc = "raised" => inv[i].exc \in {"ValueError", "TransportError"}
            /\ Returned(i) =>
                  LET result == Get(inv[i].ret)
                      snapshot == EngagementIn(ResponseOf(i))
                  IN  /\ result.action = "SUCCESS_PROCESSED_ENGAGEMENT"
                      /\ IsSome(result.association)
                      /\ Get(result.association).person = inv[i].employee_uuid
                      /\ Get(result.association).org_unit
                            = CurrentUnitIn(ResponseOf(i)).uuid
                      /\ IsSome(result.engagement)
                      /\ Get(result.engagement).uuid = inv[i].engagement_uuid
                      /\ Get(result.engagement).person = inv[i].employee_uuid
                      /\ Get(result.engagement).org_unit = OtherUnitIn(ResponseOf(i)).uuid
                      /\ Get(result.engagement).job_function = snapshot.job_function_uuid
                      /\ Get(result.engagement).engagement_type
                            = snapshot.engagement_type_uuid
                      /\ Get(result.engagement).primary = snapshot.primary_uuid
                      /\ Get(result.engagement).user_key = snapshot.user_key
                      /\ Get(result.engagement).from_date = Get(snapshot.validity).from

\* success with two related units that differ from the current unit, which
\* holds an association of another employee
C10_SuccessWithTwoOthers ==
    \E i \in Invocations :
        /\ PassesAllGuards(i)
        /\ Cardinality({RelatedIn(ResponseOf(i))[k].uuid : k \in OthersIn(ResponseOf(i))}) = 2
        /\ AssociationsOf(CurrentUnitIn(ResponseOf(i))) # <<>>
        /\ Returned(i)
        /\ ActionOf(i) = "SUCCESS_PROCESSED_ENGAGEMENT"

\* the association type lookup was answered with exactly one class
OneClass(r) == IsSome(r.classes) /\ Len(Get(r.classes)) = 1

\* C11: when the association type lookup is answered with anything but
\* exactly one class, the invocation ends with ValueError, returns no result
\* and has made no upload.
C11_UnresolvedTypeRaises ==
    \A i \in Invocations :
        (IsSome(inv[i].classes) /\ ~OneClass(Get(inv[i].classes)))
            => /\ inv[i].pc = "raised"
               /\ inv[i].exc = "ValueError"
               /\ inv[i].ret = None
               /\ UploadsOf(i) = <<>>

\* a live invocation passed every guard and the lookup of the association
\* type was answered with an empty list of classes
C11_NoClassFound ==
    \E i \in Invocations :
        /\ PassesAllGuards(i)
        /\ ~inv[i].dry_run
        /\ inv[i].classes = Some([classes |-> Some(<<>>)])
        /\ inv[i].pc = "raised"
        /\ inv[i].exc = "ValueError"

\* the queries of invocation i by name, and its uploads by kind
QueriesNamed(i, name) ==
    {k \in 1..Len(gql_calls) : gql_calls[k].inv = i /\ gql_calls[k].query = name}
UploadsOfKind(i, edit) ==
    {k \in 1..Len(uploads) : uploads[k].inv = i /\ uploads[k].edit = edit}

\* C12: an invocation whose query or upload failed has ended with that error
\* and without a result; no invocation issues a query or an upload twice, and
\* the edit of the engagement is submitted only after the association upload
\* was answered, never after it failed.
C12_FailuresPropagate ==
    \A i \in Invocations :
        /\ inv[i].exc # Missing <=> inv[i].pc = "raised"
        /\ inv[i].pc = "raised" => inv[i].ret = None
        /\ Cardinality(QueriesNamed(i, "RelatedOrgUnitQuery")) <= 1
        /\ Cardinality(QueriesNamed(i, "AssociationTypeUUID")) <= 1
        /\ Cardinality(UploadsOfKind(i, FALSE)) <= 1
        /\ Cardinality(UploadsOfKind(i, TRUE)) <= 1
        /\ \A k \in UploadsOfKind(i, FALSE) :
              ~uploads[k].done => UploadsOfKind(i, TRUE) = {}
        /\ \A k \in UploadsOfKind(i, FALSE) \cup UploadsOfKind(i, TRUE) :
              (~uploads[k].done /\ Finished(i))
                  => (inv[i].pc = "raised" /\ inv[i].exc = "TransportError")

\* the association upload of a live invocation failed
C12_AssociationUploadFailed ==
    \E i \in Invocations :
        /\ inv[i].pc = "raised"
        /\ inv[i].exc = "TransportError"
        /\ Len(UploadsOf(i)) = 1
        /\ ~UploadsOf(i)[1].edit
        /\ ~UploadsOf(i)[1].done
        /\ Cardinality(QueriesNamed(i, "RelatedOrgUnitQuery")) = 1
        /\ Cardinality(QueriesNamed(i, "AssociationTypeUUID")) = 1

\* the response has the shape the handler walks (one engagement in one unit
\* with one related-units wrapper) and one of its associations, in the
\* current unit or in a related unit, has an empty employee list
HoldsEmptyEmployeeList(r) ==
    /\ OneEngagementOneUnit(r)
    /\ Len(CurrentUnitIn(r).related_units) = 1
    /\ \A k \in 1..Len(RelatedIn(r)) : RelatedIn(r)[k].uuid # Missing
    /\ ~OneEmployeeEach(r)

\* C13: when the lookup result holds an association whose employee list is
\* empty, in the current unit or in a related unit, the handler returns a
\* validation error.
C13_EmptyEmployeeListFailsValidation ==
    \A i \in Invocations :
        (LookedUp(i) /\ HoldsEmptyEmployeeList(ResponseOf(i)))
            => (Returned(i) /\ ActionOf(i) = "BAIL_VALIDATION_ERROR")

\* the response has the shape the handler walks and one of its related units
\* carries no associations field
OmitsRelatedAssociations(r) ==
    /\ OneEngagementOneUnit(r)
    /\ Len(CurrentUnitIn(r).related_units) = 1
    /\ \A k \in 1..Len(RelatedIn(r)) : RelatedIn(r)[k].uuid # Missing
    /\ \E k \in 1..Len(RelatedIn(r)) : RelatedIn(r)[k].associations = None

\* the response with every absent association list replaced by the empty list
WithEmptyLists(r) ==
    LET unit == CurrentUnitIn(r)
        related == [k \in 1..Len(RelatedIn(r)) |->
                       [RelatedIn(r)[k] EXCEPT
                           !.associations = Some(AssociationsOf(RelatedIn(r)[k]))]]
        filled == [unit EXCEPT !.associations = Some(AssociationsOf(unit)),
                               !.related_units = <<[org_units |-> related]>>]
        engagement == [EngagementIn(r) EXCEPT !.org_unit = <<filled>>]
    IN  [engagements |-> Some(<<[objects |-> <<engagement>>]>>)]

\* C14: when a related unit of the lookup result carries no associations
\* field, the handler classifies the result as it classifies the same result
\* with an empty association list in that unit.
C14_AbsentListIsEmptyList ==
    \A i \in Invocations :
        (LookedUp(i) /\ OmitsRelatedAssociations(ResponseOf(i)) /\ Returned(i))
            => ActionOf(i) = FirstMatch(inv[i].request_type, inv[i].employee_uuid,
                                        Some(WithEmptyLists(ResponseOf(i))))

\* the response r with a primary id in its engagement
WithPrimary(r) ==
    [engagements |-> Some(<<[objects |-> <<[EngagementIn(r) EXCEPT !.primary_uuid = "PR"]>>]>>)]

\* the engagement of the response has no primary id and the response is
\* well-formed otherwise
LacksOnlyPrimary(r) ==
    /\ IsSome(r.engagements)
    /\ Len(Get(r.engagements)) = 1
    /\ Len(Get(r.engagements)[1].objects) = 1
    /\ EngagementIn(r).primary_uuid = Missing
    /\ Valid_Result(WithPrimary(r))

\* C15 as stated: a lookup result whose engagement has no primary id and is
\* well-formed otherwise does not yield a validation error.
C15_PrimaryIsOptional ==
    \A i \in Invocations :
        (LookedUp(i) /\ LacksOnlyPrimary(ResponseOf(i)))
            => ~(Returned(i) /\ ActionOf(i) = "BAIL_VALIDATION_ERROR")

\* C15, amended: the primary id is required; a lookup result whose engagement
\* has no primary id yields a validation error, also when it is well-formed
\* otherwise, and the remaining guards are not reached.
C15_PrimaryIsRequired ==
    \A i \in Invocations :
        (LookedUp(i) /\ LacksOnlyPrimary(ResponseOf(i)))
            => /\ Returned(i)
               /\ ActionOf(i) = "BAIL_VALIDATION_ERROR"
               /\ Cardinality(QueriesNamed(i, "AssociationTypeUUID")) = 0
               /\ UploadsOf(i) = <<>>

\* the response lacks only the primary id and has an other unit, so that
\* with a primary id it would have passed every guard
C15_OnlyPrimaryMissing ==
    \E i \in Invocations :
        /\ LookedUp(i)
        /\ LacksOnlyPrimary(ResponseOf(i))
        /\ FirstMatch(inv[i].request_type, inv[i].employee_uuid,
                      Some(WithPrimary(ResponseOf(i)))) = "SUCCESS_PROCESSED_ENGAGEMENT"
        /\ Returned(i)
        /\ ActionOf(i) = "BAIL_VALIDATION_ERROR"

\* C16: an invocation has a result exactly when it returned, and every
\* finished invocation returned or ended with an error; a result with the
\* success action carries both payloads and the dry-run setting of the
\* invocation, a result with any other action carries no payload and
\* dry_run = FALSE, whatever the setting.
C16_PayloadsOnlyOnSuccess ==
    \A i \in Invocations :
        /\ IsSome(inv[i].ret) <=> Returned(i)
        /\ Finished(i) => (Returned(i) \/ inv[i].exc # Missing)
        /\ Returned(i) =>
              LET result == Get(inv[i].ret)
              IN  /\ result.action \in Actions
                  /\ IF result.action = "SUCCESS_PROCESSED_ENGAGEMENT"
                     THEN /\ IsSome(result.association)
                          /\ IsSome(result.engagement)
                          /\ result.dry_run = inv[i].dry_run
                     ELSE /\ result.association = None
                          /\ result.engagement = None
                          /\ result.dry_run = FALSE

\* a live invocation returned success with both payloads after its uploads
C16_LiveSuccessCarriesPayloads ==
    \E i \in Invocations :
        /\ Returned(i)
        /\ ~inv[i].dry_run
        /\ ActionOf(i) = "SUCCESS_PROCESSED_ENGAGEMENT"
        /\ IsSome(Get(inv[i].ret).association)
        /\ IsSome(Get(inv[i].ret).engagement)
        /\ Get(inv[i].ret).dry_run = FALSE
        /\ \A k \in 1..Len(UploadsOf(i)) : UploadsOf(i)[k].done

\* the positions of the associations of employee e stored in unit u
MarkersOf(e, u) ==
    {k \in 1..Len(mo.associations[u]) : mo.associations[u][k] = <<e>>}

\* C17, by the consequence it names: invocations for different engagement
\* ids, interleaved in any way, leave at most one marker association of an
\* employee in a unit, as every sequential execution of them does.
C17_OneMarkerPerEmployeeAndUnit ==
    \A e \in Employees, u \in Units : Cardinality(MarkersOf(e, u)) <= 1

\* the snapshot of invocation i passes every guard of the handler and the
\* invocation is live
MayWrite(i) ==
    /\ inv[i].request_type # "terminate"
    /\ ~inv[i].dry_run
    /\ LookedUp(i)
    /\ Valid_Result(ResponseOf(i))
    /\ HasOther(ResponseOf(i))
    /\ ~HoldsAssociationFor(OtherUnitIn(ResponseOf(i)), inv[i].employee_uuid)
    /\ ~HoldsAssociationFor(CurrentUnitIn(ResponseOf(i)), inv[i].employee_uuid)

\* an upload was submitted only by a live invocation that passed every
\* guard; a dry run and an invocation that returned a bail or the skip have
\* submitted none
WritesOnlyAfterGuards ==
    \A i \in Invocations :
        /\ UploadsOf(i) # <<>> => MayWrite(i)
        /\ inv[i].dry_run => UploadsOf(i) = <<>>
        /\ (Returned(i) /\ ActionOf(i) # "SUCCESS_PROCESSED_ENGAGEMENT")
              => UploadsOf(i) = <<>>

\* a step that changes the associations or the engagements of the backend is
\* the answer to an upload of a live invocation that passed every guard
BackendChangesOnlyByWrites ==
    (mo'.associations # mo.associations \/ mo'.unit # mo.unit \/ mo'.person # mo.person)
        => \E i \in Invocations :
              /\ MayWrite(i)
              /\ inv[i].pc \in {"await_association", "await_engagement"}
              /\ inv'[i].pc # inv[i].pc

\* C18: uploads are made only by a live invocation that passed every guard;
\* an invocation ending in a bail or in the skip, and every dry run, has
\* made none, and the backend's associations and engagements change only in
\* answer to such an upload.
C18_WritesOnlyOnLivePath ==
    []WritesOnlyAfterGuards /\ [][BackendChangesOnlyByWrites]_vars

\* a dry run returned success and the backend still holds no association and
\* the engagement in its unit
C18_DryRunLeavesBackend ==
    \E i \in Invocations :
        /\ Returned(i)
        /\ inv[i].dry_run
        /\ ActionOf(i) = "SUCCESS_PROCESSED_ENGAGEMENT"
        /\ UploadsOf(i) = <<>>
        /\ \A u \in Units : mo.associations[u] = <<>>
        /\ mo.unit[inv[i].engagement_uuid] = CurrentUnitIn(ResponseOf(i)).uuid

\* invocation i has uploaded the marker association and submitted the edit
\* that moves its engagement out of the unit of the marker
MovedOut(i) == UploadsOfKind(i, FALSE) # {} /\ UploadsOfKind(i, TRUE) # {}

\* C19: once an invocation has left the marker association in unit A and
\* moved engagement G out of A, no later invocation for G submits an edit
\* that places G in A.
C19_NeverMovedBack ==
    \A i \in Invocations, j \in Invocations :
        (/\ i < j
         /\ MovedOut(i)
         /\ inv[j].engagement_uuid = inv[i].engagement_uuid)
        => \A k \in UploadsOfKind(j, TRUE) :
              uploads[k].object.org_unit # Get(inv[i].new_association).org_unit

\* the engagement was moved and a later edited event for it was handled
\* while the engagement is in the unit it was moved to
C19_EditedEventAfterMove ==
    \E i \in Invocations, j \in Invocations :
        /\ i < j
        /\ MovedOut(i)
        /\ \A k \in UploadsOfKind(i, TRUE) : uploads[k].done
        /\ inv[j].engagement_uuid = inv[i].engagement_uuid
        /\ inv[j].request_type = "edit"
        /\ Returned(j)
        /\ CurrentUnitIn(ResponseOf(j)).uuid = Get(inv[i].edited_engagement).org_unit
        /\ mo.unit[inv[j].engagement_uuid] # Get(inv[i].new_association).org_unit

\* C20: when the handler returns already processed for engagement G, another
\* invocation of the handler has submitted the edit that moves G to the other
\* unit before.
C20_SkipMeansMoved ==
    \A i \in Invocations :
        (Returned(i) /\ ActionOf(i) = "SKIP_ALREADY_PROCESSED")
            => \E j \in Invocations :
                  /\ j # i
                  /\ inv[j].engagement_uuid = inv[i].engagement_uuid
                  /\ UploadsOfKind(j, TRUE) # {}

\* C21: for every message delivered to on_amqp_message the handler runs with
\* the message's routing key, payload and the settings: a terminate message
\* has returned terminate not supported, any other message has issued the
\* lookup query for the engagement id of its payload.
C21_MessageReachesHandler ==
    \A i \in Invocations :
        IsSome(inv[i].message) =>
            LET message == Get(inv[i].message)
            IN  /\ inv[i].request_type = message.routing_key.request_type
                /\ inv[i].employee_uuid = message.payload.uuid
                /\ inv[i].engagement_uuid = message.payload.object_uuid
                /\ inv[i].dry_run = message.settings.dry_run
                /\ IF message.routing_key.request_type = "terminate"
                   THEN Returned(i) /\ ActionOf(i) = "BAIL_TERMINATE_NOT_SUPPORTED"
                   ELSE \E k \in QueriesNamed(i, "RelatedOrgUnitQuery") :
                           gql_calls[k].variables = <<message.payload.object_uuid>>

\* C22: every message logged by an invocation carries the engagement uuid of
\* that invocation's payload.
C22_LogsCarryOwnEngagement ==
    \A k \in 1..Len(log) :
        log[k].engagement_uuid = Some(inv[log[k].inv].engagement_uuid)

\* a list of the response that must hold one element holds several
SeveralWhereOneRequired(r) ==
    /\ IsSome(r.engagements)
    /\ LET lists == Get(r.engagements)
           engagements == UNION {{l.objects[k] : k \in 1..Len(l.objects)} :
                                   l \in {lists[k] : k \in 1..Len(lists)}}
           units == UNION {{e.org_unit[k] : k \in 1..Len(e.org_unit)} : e \in engagements}
       IN  \/ Len(lists) > 1
           \/ \E k \in 1..Len(lists) : Len(lists[k].objects) > 1
           \/ \E e \in engagements : Len(e.org_unit) > 1
           \/ \E u \in units : Len(u.related_units) > 1

\* one engagement with all its fields in one unit with one related-units
\* wrapper, whose units each carry a uuid and an association list
OneWrapperOfUnits(r) ==
    /\ OneEngagementOneUnit(r)
    /\ Len(CurrentUnitIn(r).related_units) = 1
    /\ \A k \in 1..Len(RelatedIn(r)) :
          RelatedIn(r)[k].uuid # Missing /\ IsSome(RelatedIn(r)[k].associations)

\* C23: a lookup result with several engagements entries, engagement
\* objects, org units or related-units wrappers yields a validation error; a
\* result with one of each does not, however many units its related-units
\* wrapper holds.
C23_ExactlyOneOfEach ==
    \A i \in Invocations :
        LookedUp(i) =>
            /\ SeveralWhereOneRequired(ResponseOf(i))
                  => (Returned(i) /\ ActionOf(i) = "BAIL_VALIDATION_ERROR")
            /\ OneWrapperOfUnits(ResponseOf(i))
                  => ~(Returned(i) /\ ActionOf(i) = "BAIL_VALIDATION_ERROR")

\* the response holds two related-units wrappers and is well-formed apart
\* from that
C23_TwoWrappers ==
    \E i \in Invocations :
        /\ LookedUp(i)
        /\ OneEngagementOneUnit(ResponseOf(i))
        /\ Len(CurrentUnitIn(ResponseOf(i)).related_units) = 2
        /\ Len(CurrentUnitIn(ResponseOf(i)).related_units[1].org_units) = 1
        /\ Returned(i)
        /\ ActionOf(i) = "BAIL_VALIDATION_ERROR"

\* the tasks of the gathered call that are inside the semaphore
Executing == {t \in 1..Len(gather.tasks) : gather.state[t] = "running"}

\* the tasks that have been awaited
Executed == {t \in 1..Len(gather.tasks) : gather.state[t] \in {"running", "done", "raised"}}

\* C24: gather_with_concurrency never has more than `parallel` tasks
\* executing at once, a task executes only inside the semaphore, every task
\* is eventually executed, and the list returned holds the result of every
\* task at the position of that task.
C24_BoundedGather ==
    /\ [](Cardinality(Executing) <= gather.parallel)
    /\ [](gather.pc # "idle" => gather.value + Cardinality(Executing) = gather.parallel)
    /\ [](gather.pc = "returned" =>
            /\ Len(Get(gather.ret)) = Len(gather.tasks)
            /\ \A t \in 1..Len(gather.tasks) :
                  /\ gather.tasks[t].kind = "return"
                  /\ Get(gather.ret)[t] = gather.tasks[t].value)
    /\ \A t \in 1..MaxTasks :
          (gather.pc # "idle" /\ t <= Len(gather.tasks)) ~> (t \in Executed)
    /\ (gather.pc # "idle" /\ \A t \in 1..Len(gather.tasks) : gather.tasks[t].kind = "return")
          ~> (gather.pc = "returned")

\* more tasks than the semaphore admits were gathered and their results,
\* two different values among them, have been returned
C24_GatheredMoreThanParallel ==
    /\ gather.pc = "returned"
    /\ Len(gather.tasks) > gather.parallel
    /\ Get(gather.ret)[1] # Get(gather.ret)[2]

\* the payloads generated for engagement g
PayloadsFor(g) == {n \in 1..Len(bulk.yielded) : bulk.yielded[n].object_uuid = g}

\* C25: once the generator is exhausted it has issued the listing query
\* once and has yielded, for every engagement of the listing, exactly one
\* payload: its object_uuid the engagement's uuid and its uuid the employee
\* of the engagement; no other payload was yielded.
C25_OnePayloadPerEngagement ==
    bulk.pc = "exhausted" =>
        /\ Cardinality({k \in 1..Len(gql_calls) : gql_calls[k].query = "EngagementUUID"}) = 1
        /\ Len(bulk.yielded) = Len(bulk.engagements)
        /\ \A k \in 1..Len(bulk.engagements) :
              LET engagement == bulk.engagements[k]
              IN  /\ Cardinality(PayloadsFor(engagement.uuid)) = 1
                  /\ \A n \in PayloadsFor(engagement.uuid) :
                        \E o \in 1..Len(engagement.objects) :
                            bulk.yielded[n].uuid = engagement.objects[o].employee_uuid

\* invocation j handles the redelivery of the event of invocation i
Redelivered(i, j) ==
    /\ j = i + 1
    /\ inv[j].request_type = inv[i].request_type
    /\ inv[j].employee_uuid = inv[i].employee_uuid
    /\ inv[j].engagement_uuid = inv[i].engagement_uuid
    /\ inv[j].dry_run = inv[i].dry_run

\* C26: when a live invocation that passed every guard fails with an I/O
\* error (at the association type query, the association upload or the edit
\* of the engagement) and the redelivery of its event returns an outcome, the
\* engagement is in the other unit and the original unit holds the marker
\* association of the employee.
C26_RedeliveryRecovers ==
    \A i \in Invocations, j \in Invocations :
        (/\ inv[i].pc = "raised" /\ inv[i].exc = "TransportError"
         /\ MayWrite(i)
         /\ Redelivered(i, j)
         /\ Returned(j))
        => /\ mo.unit[inv[i].engagement_uuid] = OtherUnitIn(ResponseOf(i)).uuid
           /\ Cardinality(MarkersOf(inv[i].employee_uuid,
                                    CurrentUnitIn(ResponseOf(i)).uuid)) = 1

\* invocation i returned success on the live path: both its writes were
\* accepted and its edit of the engagement emits a new event
LiveSuccess(i) ==
    /\ Returned(i)
    /\ ActionOf(i) = "SUCCESS_PROCESSED_ENGAGEMENT"
    /\ ~inv[i].dry_run

\* C27: once a live invocation for an engagement has returned success, no
\* later invocation for that engagement submits a write or returns success:
\* the event its edit emits is answered without a write, so no further event
\* is emitted and at most one invocation per engagement returns success.
C27_LoopQuiesces ==
    \A i \in Invocations, j \in Invocations :
        (/\ i < j
         /\ LiveSuccess(i)
         /\ inv[j].engagement_uuid = inv[i].engagement_uuid)
        => /\ UploadsOf(j) = <<>>
           /\ Returned(j) => ActionOf(j) # "SUCCESS_PROCESSED_ENGAGEMENT"

\* the edited event emitted by a live success was fed back and the handler
\* returned for it, having looked the engagement up in its new unit
C27_FedBackEventHandled ==
    \E i \in Invocations, j \in Invocations :
        /\ j = i + 1
        /\ LiveSuccess(i)
        /\ inv[j].engagement_uuid = inv[i].engagement_uuid
        /\ inv[j].request_type = "edit"
        /\ Returned(j)
        /\ LookedUp(j)
        /\ CurrentUnitIn(ResponseOf(j)).uuid = OtherUnitIn(ResponseOf(i)).uuid
        /\ ActionOf(j) \in {"BAIL_FOUND_REVERSE_ASSOCIATION", "BAIL_VALIDATION_ERROR"}

\* the association uploads submitted for employee e in unit u
MarkerUploads(e, u) ==
    {k \in 1..Len(uploads) :
        /\ ~uploads[k].edit
        /\ uploads[k].object.person = e
        /\ uploads[k].object.org_unit = u}

\* C28: with events handled one at a time against a live backend, the
\* backend never holds more than one marker association of an employee in a
\* unit, and every marker it holds was uploaded by the handler.
C28_SerialMarkersUnique ==
    \A e \in Employees, u \in Units :
        /\ Cardinality(MarkersOf(e, u)) <= 1
        /\ MarkersOf(e, u) # {} => MarkerUploads(e, u) # {}

\* two events of one employee were handled one after the other: the first
\* left the marker, the second found it and finished
C28_SecondEventFoundMarker ==
    \E i \in Invocations, j \in Invocations :
        /\ i < j
        /\ LiveSuccess(i)
        /\ inv[j].employee_uuid = inv[i].employee_uuid
        /\ inv[j].request_type # "terminate"
        /\ Finished(j)
        /\ LookedUp(j)
        /\ Cardinality(MarkersOf(inv[i].employee_uuid,
                                 Get(inv[i].new_association).org_unit)) = 1

====
